---- MODULE Spec2Model ----
(***************************************************************************)
(* Model of package dotenv (KoNekoD/dotenv): the layered loader LoadEnv,   *)
(* the file parser readFile and its scanner, key lexer, value extractor,   *)
(* escape decoder and variable expander.                                   *)
(*                                                                         *)
(* A byte slice or a Go string is a sequence of one-character strings.     *)
(* Inputs are ASCII, so a byte, a rune and a character coincide and        *)
(* []rune(string(b)) is the identity on the modelled inputs.               *)
(* Positions are 1-based: Go index i is position i+1, and an index         *)
(* function that returns -1 in Go returns 0 here.                          *)
(***************************************************************************)
EXTENDS Integers, Sequences, FiniteSets, TLC

VARIABLES
    \* ---- LoadEnv and the process --------------------------------------
    env,              \* the ProcessStore: os.Environ / os.Getenv / os.Setenv
    args,             \* the path... argument of the LoadEnv call
    originalVarNames, \* LoadEnv's snapshot of the names in the store
    layer,            \* index of the for loop over filesFn (1..4)
    lpc,              \* where the LoadEnv call is
    lerr,             \* the error LoadEnv returned
    \* ---- readFile ------------------------------------------------------
    cutset,           \* readFile's remainder at the head of its loop
    out,              \* readFile's map built so far
    pc,               \* where readFile is: "loop", "done", "error", "idle"
    err,              \* the error readFile returned
    \* ---- calls of the pure functions ------------------------------------
    input,            \* the text handed to the function under check
    ctx,              \* the VariableContext handed to it
    result,           \* what it returned
    \* ---- history (not read by any action's guard or effect) -------------
    env0,             \* the store when LoadEnv was called
    opened,           \* the paths readFile was called with, in order
    stores,           \* the store right after each merged layer
    traces            \* per opened layer, the statements readFile parsed

vars == <<env, args, originalVarNames, layer, lpc, lerr, cutset, out, pc, err,
          input, ctx, result, env0, opened, stores, traces>>

loadVars  == <<env, args, originalVarNames, layer, lpc, lerr>>
histVars  == <<env0, opened, stores, traces>>
callVars  == <<input, ctx, result>>

----------------------------------------------------------------------------
(* Characters and the predicates of the source.                            *)

VT   == "<VT>"     \* '\v'
NEL  == "<85>"     \* 0x85
NBSP == "<A0>"     \* 0xA0

charComment       == "#"
prefixSingleQuote == "'"
prefixDoubleQuote == "\""
exportPrefix      == <<"e", "x", "p", "o", "r", "t">>

Upper == {"A","B","C","D","E","F","G","H","I","J","K","L","M",
          "N","O","P","Q","R","S","T","U","V","W","X","Y","Z"}
Lower == {"a","b","c","d","e","f","g","h","i","j","k","l","m",
          "n","o","p","q","r","s","t","u","v","w","x","y","z"}
Digit == {"0","1","2","3","4","5","6","7","8","9"}

\* A predicate on characters (func(rune) bool) is the set of the characters
\* that satisfy it.
isSpace   == {"\t", VT, "\f", "\r", " ", NEL, NBSP}
isLineEnd == {"\n", "\r"}
isCharFunc(char) == {char}
\* unicode.IsSpace, unicode.IsLetter, unicode.IsNumber on ASCII
unicodeIsSpace  == {"\t", "\n", VT, "\f", "\r", " ", NEL, NBSP}
unicodeIsLetter == Upper \cup Lower
unicodeIsNumber == Digit

----------------------------------------------------------------------------
(* The slice functions of packages bytes and strings that the source uses. *)

Min(S) == CHOOSE x \in S : \A y \in S : x <= y
Max(S) == CHOOSE x \in S : \A y \in S : x >= y

\* s[i:] of Go for position i (1-based first kept position)
From(s, i) == SubSeq(s, i, Len(s))

\* bytes.IndexFunc: the first position whose character satisfies P, 0 if none
IndexFunc(s, P) ==
    LET I == {i \in 1..Len(s) : s[i] \in P}
    IN  IF I = {} THEN 0 ELSE Min(I)

\* bytes.IndexFunc with the negated predicate func(r) bool { return !P(r) }
IndexFuncNot(s, P) ==
    LET I == {i \in 1..Len(s) : s[i] \notin P}
    IN  IF I = {} THEN 0 ELSE Min(I)

TrimLeftFunc(s, P) ==
    LET I == {i \in 1..Len(s) : s[i] \notin P}
    IN  IF I = {} THEN <<>> ELSE From(s, Min(I))

TrimRightFunc(s, P) ==
    LET I == {i \in 1..Len(s) : s[i] \notin P}
    IN  IF I = {} THEN <<>> ELSE SubSeq(s, 1, Max(I))

TrimFunc(s, P) == TrimRightFunc(TrimLeftFunc(s, P), P)

HasPrefix(s, pre) == Len(s) >= Len(pre) /\ SubSeq(s, 1, Len(pre)) = pre

\* a Go map lookup: the zero value "" for a missing key
Lookup(m, k) == IF k \in DOMAIN m THEN m[k] ELSE <<>>

EmptyMap == [k \in {} |-> <<>>]

\* m[k] = v of a Go map; os.Setenv on the store
MapSet(m, k, v) == [x \in DOMAIN m \cup {k} |-> IF x = k THEN v ELSE m[x]]

ErrNil == "nil"

----------------------------------------------------------------------------
(* expandVariables and expandVarRegex:                                     *)
(*   (\\)?(\$)(\()?\{?([A-Z0-9_]+)?\}?                                     *)
(* Every part but the dollar is optional and greedy, so a match starts at  *)
(* the leftmost "\$" or "$" and takes each optional part that is there.    *)

\* the class [A-Z0-9_]
isNameChar == Upper \cup Digit \cup {"_"}

\* 1 when s has character c at position i, else 0
Opt(s, i, c) == IF i <= Len(s) /\ s[i] = c THEN 1 ELSE 0

\* whether expandVarRegex matches at the start of s
expandVarMatchesAt(s) ==
    \/ Len(s) >= 1 /\ s[1] = "$"
    \/ Len(s) >= 2 /\ s[1] = "\\" /\ s[2] = "$"

\* FindStringSubmatch at the start of s (s starts a match): Go's submatch
\* slice, indices 0..4; an unmatched optional group is the empty string
expandVarSubmatch(s) ==
    LET g1     == Opt(s, 1, "\\")
        dollar == g1 + 1
        g3     == Opt(s, dollar + 1, "(")
        brace  == Opt(s, dollar + g3 + 1, "{")
        first  == dollar + g3 + brace + 1
        tail   == From(s, first)
        stop   == IndexFuncNot(tail, isNameChar)
        n      == IF stop = 0 THEN Len(tail) ELSE stop - 1
        close  == Opt(s, first + n, "}")
        last   == first + n - 1 + close
    IN  [i \in 0..4 |->
            CASE i = 0 -> SubSeq(s, 1, last)
              [] i = 1 -> SubSeq(s, 1, g1)
              [] i = 2 -> <<"$">>
              [] i = 3 -> SubSeq(s, dollar + 1, dollar + g3)
              [] i = 4 -> SubSeq(s, first, first + n - 1)]

\* mutant: a name the context lacks is looked up in the ProcessStore
expandVarFuncFromStore(s, m) ==
    LET submatch == expandVarSubmatch(s)
    IN  IF submatch[1] = <<"\\">> \/ submatch[2] = <<"(">>
        THEN Tail(submatch[0])
        ELSE IF submatch[4] # <<>>
        THEN IF submatch[4] \in DOMAIN m THEN m[submatch[4]] ELSE Lookup(env, submatch[4])
        ELSE s

\* the function handed to ReplaceAllStringFunc: s is one match
expandVarFunc(s, m) ==
    LET submatch == expandVarSubmatch(s)
    IN  IF submatch[1] = <<"\\">> \/ submatch[2] = <<"(">>
        THEN Tail(submatch[0])
        ELSE IF submatch[4] # <<>>
        THEN Lookup(m, submatch[4])
        ELSE s

RECURSIVE expandVariables(_, _)
expandVariables(v, m) ==
    IF v = <<>> THEN <<>>
    ELSE IF expandVarMatchesAt(v)
    THEN LET s == expandVarSubmatch(v)[0]
         IN  expandVarFunc(s, m) \o expandVariables(From(v, Len(s) + 1), m)
    ELSE <<Head(v)>> \o expandVariables(Tail(v), m)

----------------------------------------------------------------------------
(* expandEscapes: escapeRegex \\. (the dot matches no newline), then       *)
(* unescapeCharsRegex \\([^$]) replaced by its group.                      *)

RECURSIVE escapeReplace(_)
escapeReplace(str) ==
    IF str = <<>> THEN <<>>
    ELSE IF Len(str) >= 2 /\ str[1] = "\\" /\ str[2] # "\n"
    THEN LET c == str[2]
             r == CASE c = "n" -> <<"\n">>
                    [] c = "r" -> <<"\r">>
                    [] OTHER   -> SubSeq(str, 1, 2)
         IN  r \o escapeReplace(From(str, 3))
    ELSE <<Head(str)>> \o escapeReplace(Tail(str))

RECURSIVE unescapeChars(_)
unescapeChars(str) ==
    IF str = <<>> THEN <<>>
    ELSE IF Len(str) >= 2 /\ str[1] = "\\" /\ str[2] # "$"
    THEN <<str[2]>> \o unescapeChars(From(str, 3))
    ELSE <<Head(str)>> \o unescapeChars(Tail(str))

expandEscapes(str) == unescapeChars(escapeReplace(str))

----------------------------------------------------------------------------
(* The scanner, the key lexer and the value extractor.                     *)

indexOfNonSpaceChar(src) == IndexFuncNot(src, unicodeIsSpace)

\* nil is the empty sequence: a non-nil result starts with a character
RECURSIVE getStatementStart(_)
getStatementStart(src) ==
    LET pos == indexOfNonSpaceChar(src)
    IN  IF pos = 0 THEN <<>>
        ELSE LET s == From(src, pos)
             IN  IF s[1] # charComment THEN s
                 ELSE LET nl == IndexFunc(s, isCharFunc("\n"))
                      IN  IF nl = 0 THEN <<>>
                          ELSE getStatementStart(From(s, nl))

ErrUnexpectedChar == "unexpected character in variable name"
ErrZeroLength     == "zero length string"
ErrUnterminated   == "unterminated quoted value"

\* the characters at which the key loop goes on: it skips a space, accepts
\* '_', a letter, a number and '.'
keyLoopContinues == isSpace \cup {"_"} \cup unicodeIsLetter \cup unicodeIsNumber \cup {"."}

locateKeyName(src0) ==
    LET src1    == TrimLeftFunc(src0, isSpace)
        trimmed == From(src1, Len(exportPrefix) + 1)
        src     == IF HasPrefix(src1, exportPrefix) /\ IndexFunc(trimmed, isSpace) = 1
                   THEN TrimLeftFunc(trimmed, isSpace)
                   ELSE src1
        i       == IndexFuncNot(src, keyLoopContinues)
        sep     == i # 0 /\ src[i] \in {"=", ":"}
        key     == IF sep THEN SubSeq(src, 1, i - 1) ELSE <<>>
        offset  == IF sep THEN i + 1 ELSE 1
    IN  IF i # 0 /\ ~sep
        THEN [key |-> <<>>, cutset |-> <<>>, err |-> ErrUnexpectedChar]
        ELSE IF Len(src) = 0
        THEN [key |-> <<>>, cutset |-> <<>>, err |-> ErrZeroLength]
        ELSE [key    |-> TrimRightFunc(key, unicodeIsSpace),
              cutset |-> TrimLeftFunc(From(src, offset), isSpace),
              err    |-> ErrNil]

hasQuotePrefix(src) ==
    Len(src) > 0 /\ src[1] \in {prefixDoubleQuote, prefixSingleQuote}

\* the unquoted branch up to the trim: the line, cut at the inline comment
\* the backward loop finds, and trimmed
unquotedTrimmed(line) ==
    LET C        == {i \in 2..Len(line) : line[i] = charComment /\ line[i-1] \in isSpace}
        endOfVar == IF C = {} THEN Len(line) ELSE Max(C) - 1
    IN  TrimFunc(SubSeq(line, 1, endOfVar), isSpace)

\* mutant: the unquoted branch returns its argument as the remainder
extractUnquotedNoAdvance(src, vmap) ==
    LET eol       == IndexFunc(src, isLineEnd)
        endOfLine == IF eol = 0 THEN Len(src) ELSE eol - 1
        line      == SubSeq(src, 1, endOfLine)
    IN  IF eol = 0 /\ endOfLine = 0
        THEN [value |-> <<>>, rest |-> <<>>, err |-> ErrNil]
        ELSE [value |-> expandVariables(unquotedTrimmed(line), vmap),
              rest  |-> src,
              err   |-> ErrNil]

extractUnquoted(src, vmap) ==
    LET eol       == IndexFunc(src, isLineEnd)
        endOfLine == IF eol = 0 THEN Len(src) ELSE eol - 1
        line      == SubSeq(src, 1, endOfLine)
    IN  IF eol = 0 /\ endOfLine = 0
        THEN [value |-> <<>>, rest |-> <<>>, err |-> ErrNil]
        ELSE IF Len(line) = 0
        THEN [value |-> <<>>, rest |-> From(src, endOfLine + 1), err |-> ErrNil]
        ELSE [value |-> expandVariables(unquotedTrimmed(line), vmap),
              rest  |-> From(src, endOfLine + 1),
              err   |-> ErrNil]

\* the value between the quotes, src[0:i] with the quote character trimmed
\* off both ends (i is the position of the closing quote)
trimQuotes(src, i) ==
    LET trimFunc == isCharFunc(src[1])
    IN  TrimLeftFunc(TrimRightFunc(SubSeq(src, 1, i - 1), trimFunc), trimFunc)

extractQuoted(src, vmap) ==
    LET quote == src[1]
        T     == {i \in 2..Len(src) : src[i] = quote /\ src[i-1] # "\\"}
    IN  IF T = {}
        THEN [value |-> <<>>, rest |-> <<>>, err |-> ErrUnterminated]
        ELSE LET i     == Min(T)
                 value == trimQuotes(src, i)
             IN  [value |-> IF quote = prefixDoubleQuote
                            THEN expandVariables(expandEscapes(value), vmap)
                            ELSE value,
                  rest  |-> From(src, i + 1),
                  err   |-> ErrNil]

extractVarValue(src, vmap) ==
    IF ~hasQuotePrefix(src)
    THEN extractUnquoted(src, vmap)
    ELSE extractQuoted(src, vmap)

----------------------------------------------------------------------------
(* readFile.                                                               *)

ErrIO == "read error"

\* bytes.Replace(src, "\r\n", "\n", -1)
RECURSIVE normalizeLineEndings(_)
normalizeLineEndings(src) ==
    IF src = <<>> THEN <<>>
    ELSE IF Len(src) >= 2 /\ src[1] = "\r" /\ src[2] = "\n"
    THEN <<"\n">> \o normalizeLineEndings(From(src, 3))
    ELSE <<Head(src)>> \o normalizeLineEndings(Tail(src))

\* One iteration of readFile's loop from the remainder cut and the map o:
\* where the loop goes, the next remainder, the map, the error, and the
\* statement it read (its key, the text handed to extractVarValue, its value).
\* readStatement is the iteration; afterStart, afterKey and afterValue are
\* its three tests in order.
stmtNone == [key |-> <<>>, left |-> <<>>, value |-> <<>>]
afterValue(start, k, v, o) ==
    IF v.err # ErrNil
    THEN [pc |-> "error", cutset |-> start, out |-> o, err |-> v.err, stmt |-> stmtNone]
    ELSE [pc     |-> "loop",
          cutset |-> v.rest,
          out    |-> MapSet(o, k.key, v.value),
          err    |-> ErrNil,
          stmt   |-> [key |-> k.key, left |-> k.cutset, value |-> v.value]]
afterKey(start, k, o) ==
    IF k.err # ErrNil
    THEN [pc |-> "error", cutset |-> start, out |-> o, err |-> k.err, stmt |-> stmtNone]
    ELSE afterValue(start, k, extractVarValue(k.cutset, o), o)
afterStart(start, o) ==
    IF start = <<>>
    THEN [pc |-> "done", cutset |-> <<>>, out |-> o, err |-> ErrNil, stmt |-> stmtNone]
    ELSE afterKey(start, locateKeyName(start), o)
readStatement(cut, o) == afterStart(getStatementStart(cut), o)

\* append x to the last element of the sequence of sequences ss
AppendLast(ss, x) == [ss EXCEPT ![Len(ss)] = Append(@, x)]

ReadStatement ==
    /\ pc = "loop"
    /\ LET r == readStatement(cutset, out)
       IN  /\ pc' = r.pc
           /\ cutset' = r.cutset
           /\ out' = r.out
           /\ err' = r.err
           /\ traces' = IF r.pc = "loop" THEN AppendLast(traces, r.stmt) ELSE traces
    /\ UNCHANGED <<loadVars, callVars, env0, opened, stores>>

----------------------------------------------------------------------------
(* LoadEnv and appEnv over the ProcessStore.                               *)

EnvKey     == <<"A", "P", "P", "_", "E", "N", "V">>
DefaultEnv == <<"d", "e", "v">>
DotEnv     == <<".", "e", "n", "v">>
DotLocal   == <<".", "l", "o", "c", "a", "l">>

Getenv(e, k) == Lookup(e, k)

\* os.Setenv fails with EINVAL on an empty name and changes nothing
Setenv(e, k, v) == IF k = <<>> THEN e ELSE MapSet(e, k, v)

\* appEnv on the store e: the name it returns and the store it leaves
appEnv(e) ==
    IF Getenv(e, EnvKey) = <<>>
    THEN [name |-> DefaultEnv, store |-> Setenv(e, EnvKey, DefaultEnv)]
    ELSE [name |-> Getenv(e, EnvKey), store |-> e]

\* p := path[0] after the normalisation of the argument list
basePath(path) == IF Len(path) # 1 THEN DotEnv ELSE path[1]

\* mutant: the name is resolved once, from the store at the call
filesFnResolvedAtCall(i, p, e) ==
    CASE i = 1 -> [file |-> p, store |-> e]
      [] i = 2 -> [file |-> p \o DotLocal, store |-> e]
      [] i = 3 -> [file |-> p \o <<".">> \o appEnv(env0).name, store |-> e]
      [] i = 4 -> [file |-> p \o <<".">> \o appEnv(env0).name \o DotLocal, store |-> e]

\* filesFn[i-1]() called with the store e: the file name and the store
filesFn(i, p, e) ==
    CASE i = 1 -> [file |-> p, store |-> e]
      [] i = 2 -> [file |-> p \o DotLocal, store |-> e]
      [] i = 3 -> [file |-> p \o <<".">> \o appEnv(e).name, store |-> appEnv(e).store]
      [] i = 4 -> [file  |-> p \o <<".">> \o appEnv(e).name \o DotLocal,
                   store |-> appEnv(e).store]

\* the merge loop of LoadEnv over one layer's map (keys are distinct, so the
\* iteration order of the map does not matter)
RECURSIVE mergeLayer(_, _, _)
mergeLayer(e, m, original) ==
    IF DOMAIN m = {} THEN e
    ELSE LET k    == CHOOSE x \in DOMAIN m : TRUE
             rest == [x \in DOMAIN m \ {k} |-> m[x]]
         IN  mergeLayer(IF k \notin original THEN Setenv(e, k, m[k]) ELSE e,
                        rest, original)

NumLayers == 4

LoadEnvCall ==
    /\ lpc = "idle"
    /\ originalVarNames' = DOMAIN env
    /\ layer' = 1
    /\ lpc' = "open"
    /\ env0' = env
    /\ UNCHANGED <<env, args, lerr, cutset, out, pc, err, callVars, opened, stores, traces>>

\* what os.Open and io.Copy find at a path
Missing    == [kind |-> "missing", bytes |-> <<>>]
Unreadable == [kind |-> "unreadable", bytes |-> <<>>]
File(b)    == [kind |-> "file", bytes |-> b]

\* the texts a layer file may hold
K == <<"K">>
J == <<"J">>
LayerTexts ==
    { <<"K", "=", "1">>,
      <<"K", "=", "1", "\n", "K", "=", "2", "\n", "J", "=", "$", "K">>,
      <<"J", "=", "$", "{", "K", "}", "\n", "K", "=", "3">>,
      EnvKey \o <<"=", "q">>,
      EnvKey \o <<"=">>,
      <<"K", "=", "1", "\n", "J", "=", "'">> }

LayerFiles == {Missing, Unreadable} \cup {File(b) : b \in LayerTexts}

\* The head of the for loop: f() builds the name (appEnv may write the store),
\* then readFile opens and reads the file.  The file found at a path is
\* chosen when the path is opened; no path is opened twice in one call.
OpenLayer ==
    /\ lpc = "open"
    /\ \E found \in LayerFiles :
         LET f == filesFn(layer, basePath(args), env)
         IN  /\ env' = f.store
             /\ opened' = Append(opened, f.file)
             /\ traces' = Append(traces, <<>>)
             /\ lpc' = "read"
             /\ out' = EmptyMap
             /\ CASE found.kind = "missing" ->
                       pc' = "done" /\ err' = ErrNil /\ cutset' = <<>>
                  [] found.kind = "unreadable" ->
                       pc' = "error" /\ err' = ErrIO /\ cutset' = <<>>
                  [] found.kind = "file" ->
                       pc' = "loop" /\ err' = ErrNil
                       /\ cutset' = normalizeLineEndings(found.bytes)
    /\ UNCHANGED <<args, originalVarNames, layer, lerr, callVars, env0, stores>>

\* readFile returned a map: merge it, then the next layer or return nil
MergeLayer ==
    /\ lpc = "read"
    /\ pc = "done"
    /\ env' = mergeLayer(env, out, originalVarNames)
    /\ stores' = Append(stores, env')
    /\ pc' = "idle"
    /\ IF layer = NumLayers
       THEN lpc' = "returned" /\ lerr' = ErrNil /\ layer' = layer
       ELSE lpc' = "open" /\ lerr' = lerr /\ layer' = layer + 1
    /\ UNCHANGED <<args, originalVarNames, cutset, out, err, callVars, env0, opened, traces>>

\* mutant: the map of the failed parse is merged before the error is returned
ReturnErrorMergingPartial ==
    /\ lpc = "read"
    /\ pc = "error"
    /\ env' = mergeLayer(env, out, originalVarNames)
    /\ lerr' = err
    /\ lpc' = "returned"
    /\ pc' = "idle"
    /\ UNCHANGED <<args, originalVarNames, layer, cutset, out, err, callVars, histVars>>

\* readFile returned an error: LoadEnv returns it
ReturnError ==
    /\ lpc = "read"
    /\ pc = "error"
    /\ lerr' = err
    /\ lpc' = "returned"
    /\ pc' = "idle"
    /\ UNCHANGED <<env, args, originalVarNames, layer, cutset, out, err, callVars, histVars>>

\* the stores LoadEnv may be called in, and its arguments
Cfg == <<"c">>
InitialStores ==
    { e \in UNION { [D -> {<<>>, <<"q">>, <<"0">>}] : D \in SUBSET {EnvKey, K} } :
        /\ (EnvKey \in DOMAIN e => e[EnvKey] \in {<<>>, <<"q">>})
        /\ (K \in DOMAIN e => e[K] = <<"0">>) }
InitialArgs == { <<>>, <<Cfg>>, <<Cfg, DotEnv>> }

Init ==
    /\ env \in InitialStores
    /\ args \in InitialArgs
    /\ originalVarNames = {}
    /\ layer = 0
    /\ lpc = "idle"
    /\ lerr = ErrNil
    /\ cutset = <<>>
    /\ out = EmptyMap
    /\ pc = "idle"
    /\ err = ErrNil
    /\ input = <<>>
    /\ ctx = EmptyMap
    /\ result = <<>>
    /\ env0 = EmptyMap
    /\ opened = <<>>
    /\ stores = <<>>
    /\ traces = <<>>

Next == LoadEnvCall \/ OpenLayer \/ ReadStatement \/ MergeLayer \/ ReturnError

Spec == Init /\ [][Next]_vars

----------------------------------------------------------------------------
(* readFile alone, on every text over ParseChars up to MaxSrcLen           *)
(* characters (the text is what io.Copy read from the file).               *)

Strings(A, n) == UNION { [1..k -> A] : k \in 0..n }

MaxSrcLen == 6
ParseChars == {"a", "=", " ", "#", "\n", "\r", "'"}

NoLoad ==
    /\ env = EmptyMap
    /\ args = <<>>
    /\ originalVarNames = {}
    /\ layer = 0
    /\ lpc = "none"
    /\ lerr = ErrNil
    /\ env0 = EmptyMap
    /\ opened = <<>>
    /\ stores = <<>>

InitParse ==
    /\ NoLoad
    /\ input \in Strings(ParseChars, MaxSrcLen)
    /\ cutset = normalizeLineEndings(input)
    /\ out = EmptyMap
    /\ pc = "loop"
    /\ err = ErrNil
    /\ ctx = EmptyMap
    /\ result = <<>>
    /\ traces = << <<>> >>

SpecParse == InitParse /\ [][ReadStatement]_vars

----------------------------------------------------------------------------
(* extractVarValue alone.  Its argument is what locateKeyName returned, so *)
(* it never starts with a character of isSpace.                            *)

MaxValueLen == 5
ValueChars == {"a", " ", "#", "\n", "'", "\\"}

NoRead ==
    /\ cutset = <<>>
    /\ out = EmptyMap
    /\ err = ErrNil
    /\ traces = <<>>

InitValue ==
    /\ NoLoad
    /\ NoRead
    /\ input \in {s \in Strings(ValueChars, MaxValueLen) : s = <<>> \/ s[1] \notin isSpace}
    /\ ctx = EmptyMap
    /\ pc = "call"
    /\ result = <<>>

ExtractValue ==
    /\ pc = "call"
    /\ result' = extractVarValue(input, ctx)
    /\ pc' = "returned"
    /\ UNCHANGED <<loadVars, histVars, cutset, out, err, input, ctx>>

SpecValue == InitValue /\ [][ExtractValue]_vars

----------------------------------------------------------------------------
(* expandVariables alone, with a context that may define the name A.       *)

MaxExpandLen == 4
ExpandChars == {"$", "(", ")", "{", "A", "\\"}
NameA == <<"A">>
Contexts == { EmptyMap, [k \in {NameA} |-> <<"x">>] }

InitExpand ==
    /\ NoLoad
    /\ NoRead
    /\ input \in Strings(ExpandChars, MaxExpandLen)
    /\ ctx \in Contexts
    /\ pc = "call"
    /\ result = <<>>

Expand ==
    /\ pc = "call"
    /\ result' = expandVariables(input, ctx)
    /\ pc' = "returned"
    /\ UNCHANGED <<loadVars, histVars, cutset, out, err, input, ctx>>

SpecExpand == InitExpand /\ [][Expand]_vars

----------------------------------------------------------------------------
(* Properties of LoadEnv (under Spec).                                     *)

Returned   == lpc = "returned"
ReturnedOk == lpc = "returned" /\ lerr = ErrNil
Failed     == lpc = "returned" /\ lerr # ErrNil

\* the store after the layers merged so far
StoreBeforeLayer(i) == IF i = 1 THEN env0 ELSE stores[i - 1]

\* the name a store gives the environment: its value of EnvKey, the default
\* when that is absent or empty
NameIn(store) ==
    IF Lookup(store, EnvKey) = <<>> THEN DefaultEnv ELSE store[EnvKey]

\* the i-th candidate path for base p and environment name n
CandidatePath(i, p, n) ==
    CASE i = 1 -> p
      [] i = 2 -> p \o DotLocal
      [] i = 3 -> p \o <<".">> \o n
      [] i = 4 -> p \o <<".">> \o n \o DotLocal

\* the statements of one parsed file that assign key k, in order
Assignments(tr, k) == SelectSeq(tr, LAMBDA st : st.key = k)

\* the value the most recent assignment of k in tr gives it, "" if none
MostRecent(tr, k) ==
    IF Assignments(tr, k) = <<>> THEN <<>>
    ELSE Assignments(tr, k)[Len(Assignments(tr, k))].value

\* the layers merged so far whose file assigns k
LayersDefining(k) == {i \in 1..Len(stores) : Assignments(traces[i], k) # <<>>}

\* C1: every name present in the ProcessStore when LoadEnv is called has the
\* same value after LoadEnv returns, with or without an error.
C1_PreexistingUnchanged ==
    Returned => \A k \in DOMAIN env0 : k \in DOMAIN env /\ env[k] = env0[k]

\* C2: after a load that returns no error, a key that was absent from the
\* ProcessStore before the call and that some layer file defines has the value
\* given to it by the last layer, in loading order, whose file defines it.
C2_LastLayerWins ==
    ReturnedOk =>
        \A k \in UNION {{st.key : st \in {traces[i][j] : j \in 1..Len(traces[i])}}
                          : i \in 1..Len(traces)} :
            k \notin DOMAIN env0 =>
                /\ k \in DOMAIN env
                /\ env[k] = MostRecent(traces[Max(LayersDefining(k))], k)

\* C3 as stated: when a layer fails, LoadEnv returns that error, no later layer
\* is opened, and the ProcessStore is exactly the store left by the merge of
\* the layers before the failing one.
C3_FailureLeavesMergedStore ==
    Failed =>
        /\ lerr = err
        /\ Len(opened) = Len(stores) + 1
        /\ env = StoreBeforeLayer(Len(opened))

\* C3 amended: when a layer fails, LoadEnv returns that error, no later layer
\* is opened, and the ProcessStore is the store left by the merge of the
\* layers before the failing one, except that building the path of a failing
\* third or fourth layer has set EnvKey to DefaultEnv if it was absent or empty.
C3_FailureLeavesMergedStoreButDefault ==
    Failed =>
        /\ lerr = err
        /\ Len(opened) = Len(stores) + 1
        /\ env = IF Len(opened) >= 3
                    /\ Lookup(StoreBeforeLayer(Len(opened)), EnvKey) = <<>>
                 THEN MapSet(StoreBeforeLayer(Len(opened)), EnvKey, DefaultEnv)
                 ELSE StoreBeforeLayer(Len(opened))

\* a failure after an earlier layer wrote the store and after the failing
\* file's first statements were parsed: their keys are in out, not in the store
C3_Witness ==
    /\ Failed
    /\ lerr = ErrUnterminated
    /\ env # env0
    /\ \E k \in DOMAIN out : k \notin originalVarNames /\ Lookup(env, k) # out[k]

\* C4 as stated: all four paths are built from the one environment name
\* resolved from the ProcessStore as it stood before any layer was parsed.
C4_NameResolvedOnceBeforeLayers ==
    \A i \in 1..Len(opened) :
        opened[i] = CandidatePath(i, basePath(args), NameIn(env0))

\* C4 amended: the third and the fourth path are each built from the name the
\* ProcessStore gives when that path is built, that is after the merge of the
\* layers before it (the default, written back, when EnvKey is absent or
\* empty there).
C4_NameResolvedPerLayer ==
    /\ \A i \in 1..Len(opened) :
         opened[i] = CandidatePath(i, basePath(args), NameIn(StoreBeforeLayer(i)))
    /\ (lpc = "read" /\ Len(opened) >= 3) =>
         Lookup(env, EnvKey) = NameIn(StoreBeforeLayer(Len(opened)))

\* all four layers opened, the first wrote EnvKey, and the third and fourth
\* paths carry that name and not the one of the store at the call
C4_Witness ==
    /\ Len(opened) = NumLayers
    /\ NameIn(env0) = DefaultEnv
    /\ opened[3] = basePath(args) \o <<".", "q">>
    /\ opened[4] = basePath(args) \o <<".", "q">> \o DotLocal

\* the text left starts with a line that is exactly a reference to name n,
\* unquoted or double-quoted
FirstLine(left) ==
    IF IndexFunc(left, isLineEnd) = 0 THEN left
    ELSE SubSeq(left, 1, IndexFunc(left, isLineEnd) - 1)
IsPlainRef(left, n) ==
    FirstLine(left) \in { <<"$">> \o n,
                          <<"$", "{">> \o n \o <<"}">>,
                          <<"\"", "$">> \o n \o <<"\"">>,
                          <<"\"", "$", "{">> \o n \o <<"}", "\"">> }
RefNames == {K, J, EnvKey}

----------------------------------------------------------------------------
(* Properties of readFile (under SpecParse).                               *)

KeyChars == Upper \cup Lower \cup Digit \cup {"_", "."}

\* C9: every key of the map readFile builds is a non-empty string of letters,
\* digits, '_' and '.'.
C9_KeysWellFormed ==
    \A k \in DOMAIN out : k # <<>> /\ \A i \in 1..Len(k) : k[i] \in KeyChars

\* a is a suffix of b and shorter than b
IsStrictSuffix(a, b) ==
    Len(a) < Len(b) /\ a = From(b, Len(b) - Len(a) + 1)

\* C10: an iteration of readFile's loop either ends the loop (the file is
\* parsed to completion, or readFile fails) or hands the next iteration a
\* strictly shorter suffix of the remainder it started with.  The length of
\* the remainder is then a variant of the loop, which so ends on every input.
C10_LoopTerminates ==
    [][pc = "loop" =>
         \/ pc' \in {"done", "error"}
         \/ pc' = "loop" /\ IsStrictSuffix(cutset', cutset)]_vars

\* a file parsed to completion in three or more iterations, and one that
\* starts with a comment line
C10_Witness ==
    /\ pc = "done"
    /\ Len(traces[1]) >= 2
    /\ input[1] = charComment

----------------------------------------------------------------------------
(* Properties of extractVarValue (under SpecValue).  ValueChars has no '$' *)
(* and the context is empty, so the value returned for an unquoted text is *)
(* the value before variable expansion.                                    *)

Unquoted == pc = "returned" /\ ~hasQuotePrefix(input) /\ result.err = ErrNil

\* C7: the value of an unquoted text has no '#' right after a whitespace
\* character and no whitespace at either end.
C7_InlineCommentStripped ==
    Unquoted =>
        /\ \A i \in 2..Len(result.value) :
             ~(result.value[i] = charComment /\ result.value[i-1] \in isSpace)
        /\ result.value = TrimFunc(result.value, isSpace)

\* the position of the first quote after the opening one that no backslash
\* precedes, 0 if there is none
ClosingQuote(src) ==
    LET T == {i \in 2..Len(src) : src[i] = src[1] /\ src[i-1] # "\\"}
    IN  IF T = {} THEN 0 ELSE Min(T)

\* C8: the value of a single-quoted text is exactly the text between the
\* opening quote and the first later quote that no backslash precedes.
C8_SingleQuotedVerbatim ==
    (/\ pc = "returned"
     /\ hasQuotePrefix(input)
     /\ input[1] = prefixSingleQuote
     /\ result.err = ErrNil)
    => result.value = SubSeq(input, 2, ClosingQuote(input) - 1)

----------------------------------------------------------------------------
(* Properties of expandVariables (under SpecExpand).  The one value a      *)
(* context holds is "x", and no input has an 'x'.                          *)

\* every '$' of v is immediately followed by '('
EveryDollarOpensParen(v) ==
    \A i \in 1..Len(v) : v[i] = "$" => (i < Len(v) /\ v[i+1] = "(")

Range(f) == {f[i] : i \in DOMAIN f}

\* C6: a '$' immediately followed by '(' is never expanded: no value of the
\* context is substituted for the name after "$(".
C6_ParenNotExpanded ==
    (pc = "returned" /\ EveryDollarOpensParen(input)) => "x" \notin Range(result)

====
